---- MODULE Spec2Model ----
(***************************************************************************)
(* A model of btree-rs: a disk-backed B-tree (src/src/btree.rs) whose      *)
(* nodes (src/src/node.rs) are serialised to 4096-byte pages               *)
(* (src/src/page.rs) stored in one file by a pager (src/src/pager.rs).     *)
(* The root offset lives in a WAL whose source (wal.rs) is not part of     *)
(* the repository excerpt; it is modelled from spec.md section 4.3.        *)
(*                                                                         *)
(* Strings are sequences of bytes, pages are sequences of bytes (the       *)
(* zero-filled tail of a page is left implicit), offsets are byte offsets. *)
(***************************************************************************)
EXTENDS Integers, Sequences, FiniteSets, Bags, TLC

\* ------------------------------------------------------------------------
\* Program constants
\* ------------------------------------------------------------------------
MAX_BRANCHING_FACTOR == 200
KEY_SIZE == 10
VALUE_SIZE == 10
PAGE_SIZE == 4096
PTR_SIZE == 8
IS_ROOT_SIZE == 1
IS_ROOT_OFFSET == 0
PARENT_POINTER_OFFSET == 2
PARENT_POINTER_SIZE == PTR_SIZE
NODE_TYPE_SIZE == 1
NODE_TYPE_OFFSET == 1
COMMON_NODE_HEADER_SIZE == NODE_TYPE_SIZE + IS_ROOT_SIZE + PARENT_POINTER_SIZE
INTERNAL_NODE_NUM_CHILDREN_OFFSET == COMMON_NODE_HEADER_SIZE
INTERNAL_NODE_NUM_CHILDREN_SIZE == PTR_SIZE
INTERNAL_NODE_HEADER_SIZE == COMMON_NODE_HEADER_SIZE + INTERNAL_NODE_NUM_CHILDREN_SIZE
LEAF_NODE_NUM_PAIRS_OFFSET == COMMON_NODE_HEADER_SIZE
LEAF_NODE_NUM_PAIRS_SIZE == PTR_SIZE
LEAF_NODE_HEADER_SIZE == COMMON_NODE_HEADER_SIZE + LEAF_NODE_NUM_PAIRS_SIZE

\* ------------------------------------------------------------------------
\* Bounds of the model
\* ------------------------------------------------------------------------
\* branching factors explored: 1..MaxBranches
MaxBranches == 2
\* number of insert calls (successful or failed) in one behaviour that draws
\* its pairs freely from ValidInputs, OverflowInputs or DupInputs, and in
\* every behaviour of branching factor 1 (whose tree gets its third level
\* within MaxInserts)
MaxInserts == 4
\* number of insert calls in one behaviour that draws its pairs freely from
\* TwoInputs, for a branching factor of 2 or more (with a branching factor
\* of 2 the seventh insert can give the tree its third level)
MaxInsertsTwo == 7
\* number of insert calls in one behaviour that inserts one pair over and
\* over, for a branching factor of 2 or more (with a branching factor of 2
\* the ninth insert can split an internal node below the root)
MaxInsertsSame == 9
\* number of insert calls in one behaviour whose keys come in ascending or
\* in descending order, for a branching factor of 2 or more (with a
\* branching factor of 2 the thirteenth insert of ascending keys splits an
\* internal node below the root)
MaxInsertsOrdered == 14
\* branching factors offered to BTree::new: 0..MAX_BRANCHING_FACTOR + MaxExcess
MaxExcess == 2
\* number of keys (of an internal node) or pairs (of a leaf) of a node that
\* is encoded and decoded on its own; an internal node has up to one child
\* more
MaxCodecEntries == 2
\* branching factors Node::split is called with on its own:
\* 1..MaxSplitBranches, on nodes of 0..2*MaxSplitBranches entries
MaxSplitBranches == 3
\* number of calls made on a pager on its own
MaxPagerOps == 4

\* ------------------------------------------------------------------------
\* Result<T, Error> and Option<T>
\* ------------------------------------------------------------------------
Ok(v) == [ok |-> TRUE, val |-> v, err |-> ""]
Err(e) == [ok |-> FALSE, val |-> <<>>, err |-> e]
None == <<>>
Some(x) == <<x>>

\* ------------------------------------------------------------------------
\* Strings: byte sequences, ordered as Rust orders String (bytewise,
\* lexicographic, a proper prefix first)
\* ------------------------------------------------------------------------
RECURSIVE StrLess(_, _)
StrLess(a, b) ==
  IF Len(b) = 0 THEN FALSE
  ELSE IF Len(a) = 0 THEN TRUE
  ELSE IF a[1] < b[1] THEN TRUE
  ELSE IF a[1] > b[1] THEN FALSE
  ELSE StrLess(Tail(a), Tail(b))

StrLeq(a, b) == a = b \/ StrLess(a, b)

\* KeyValuePair::new
KeyValuePair(k, v) == [key |-> k, value |-> v]

\* Node::new
Node(node_type, children, keys, pairs, is_root, parent_offset) ==
  [node_type |-> node_type, children |-> children, keys |-> keys,
   pairs |-> pairs, is_root |-> is_root, parent_offset |-> parent_offset]

Internal(children, keys, is_root, parent_offset) ==
  Node("Internal", children, keys, <<>>, is_root, parent_offset)
Leaf(pairs, is_root, parent_offset) ==
  Node("Leaf", <<>>, <<>>, pairs, is_root, parent_offset)
UnexpectedNode(is_root, parent_offset) ==
  Node("Unexpected", <<>>, <<>>, <<>>, is_root, parent_offset)

\* ------------------------------------------------------------------------
\* utils.rs
\* ------------------------------------------------------------------------
bool_to_byte(b) == IF b THEN 1 ELSE 0
byte_to_bool(b) == b = 1

\* ------------------------------------------------------------------------
\* Page codec (page.rs, node.rs)
\* ------------------------------------------------------------------------
\* usize::to_be_bytes restricted to its n low-order bytes
RECURSIVE BeBytes(_, _)
BeBytes(x, n) == IF n = 0 THEN <<>> ELSE BeBytes(x \div 256, n - 1) \o <<x % 256>>
to_be_bytes(x) == BeBytes(x, PTR_SIZE)

\* usize::from_be_bytes of the n bytes of a page image from offset on
RECURSIVE from_be_bytes(_, _, _)
from_be_bytes(page, offset, n) ==
  IF n = 0 THEN 0
  ELSE from_be_bytes(page, offset, n - 1) * 256
       + (IF offset + n - 1 < Len(page) THEN page[offset + n] ELSE 0)

Zeros(n) == [i \in 1..n |-> 0]

\* a fixed-width slot: [0x00; size] with the bytes copied to its front
Slot(bytes, size) == bytes \o Zeros(size - Len(bytes))

\* the page image [u8; PAGE_SIZE] is kept without its trailing zero bytes
RECURSIVE StripTail(_)
StripTail(data) ==
  IF data = <<>> \/ data[Len(data)] # 0 THEN data
  ELSE StripTail(SubSeq(data, 1, Len(data) - 1))

\* Page::new
Page(data) == StripTail(data)

\* byte i (0-based) of a page image
ByteAt(page, i) == IF i < Len(page) THEN page[i + 1] ELSE 0

\* Page::get_ptr_from_offset: &data[offset..offset + size]
get_ptr_from_offset(page, offset, size) ==
  [i \in 1..size |-> ByteAt(page, offset + i - 1)]

\* Page::get_value_from_offset (Value::try_from cannot fail on 8 bytes)
get_value_from_offset(page, offset) == from_be_bytes(page, offset, PTR_SIZE)

\* str::trim_matches(char::from(0)): strips NUL at both ends
RECURSIVE TrimFront(_)
TrimFront(s) == IF s # <<>> /\ s[1] = 0 THEN TrimFront(Tail(s)) ELSE s
\* decoding that strips the NUL bytes in front of a string only
trim_matches_front_only(s) == TrimFront(s)
trim_matches(s) == TrimFront(StripTail(s))

\* str::from_utf8 succeeds on these bytes (ASCII is always valid; a byte of
\* 0x80 or more standing alone is not)
IsUtf8(bytes) == \A i \in 1..Len(bytes) : bytes[i] < 128

\* u8::from(&NodeType)
NodeTypeTag(t) == IF t = "Internal" THEN 1 ELSE IF t = "Leaf" THEN 2 ELSE 3

\* NodeType::from(u8)
NodeTypeFromTag(b) == IF b = 1 THEN "Internal" ELSE IF b = 2 THEN "Leaf" ELSE "Unexpected"

\* The loops of the encoder over the entries of a node.  An entry is written
\* once those before it are: a run of entries is encoded as its first half,
\* and its second half after that, so that the first entry that fails
\* decides the result.
\* the keys of an internal node, written from page_offset on
RECURSIVE EncodeKeys(_, _)
EncodeKeys(keys, page_offset) ==
  IF keys = <<>> THEN Ok(<<>>)
  ELSE IF Len(keys) = 1 THEN
    IF Len(keys[1]) > KEY_SIZE THEN Err("KeyOverflowError")
    ELSE IF page_offset + KEY_SIZE > PAGE_SIZE THEN Err("Panic")
    ELSE Ok(Slot(keys[1], KEY_SIZE))
  ELSE LET half == Len(keys) \div 2
           first == EncodeKeys(SubSeq(keys, 1, half), page_offset)
       IN IF ~first.ok THEN first
          ELSE LET rest == EncodeKeys(SubSeq(keys, half + 1, Len(keys)),
                                      page_offset + KEY_SIZE * half)
               IN IF rest.ok THEN Ok(first.val \o rest.val) ELSE rest

\* the child offsets of an internal node, written from page_offset on
RECURSIVE EncodeChildren(_, _)
EncodeChildren(child_offsets, page_offset) ==
  IF child_offsets = <<>> THEN Ok(<<>>)
  ELSE IF Len(child_offsets) = 1 THEN
    IF page_offset + PTR_SIZE > PAGE_SIZE THEN Err("Panic")
    ELSE Ok(to_be_bytes(child_offsets[1]))
  ELSE LET half == Len(child_offsets) \div 2
           first == EncodeChildren(SubSeq(child_offsets, 1, half), page_offset)
       IN IF ~first.ok THEN first
          ELSE LET rest == EncodeChildren(SubSeq(child_offsets, half + 1, Len(child_offsets)),
                                          page_offset + PTR_SIZE * half)
               IN IF rest.ok THEN Ok(first.val \o rest.val) ELSE rest

\* the pairs of a leaf, with a key or a value that fills its slot refused
RECURSIVE EncodePairs_RefusesFullSlot(_, _)
EncodePairs_RefusesFullSlot(pairs, page_offset) ==
  IF pairs = <<>> THEN Ok(<<>>)
  ELSE IF Len(pairs) = 1 THEN
    LET pair == pairs[1] IN
    IF Len(pair.key) >= KEY_SIZE THEN Err("KeyOverflowError")
    ELSE IF page_offset + KEY_SIZE > PAGE_SIZE THEN Err("Panic")
    ELSE IF Len(pair.value) >= VALUE_SIZE THEN Err("ValueOverflowError")
    ELSE IF page_offset + KEY_SIZE + VALUE_SIZE > PAGE_SIZE THEN Err("Panic")
    ELSE Ok(Slot(pair.key, KEY_SIZE) \o Slot(pair.value, VALUE_SIZE))
  ELSE LET half == Len(pairs) \div 2
           first == EncodePairs_RefusesFullSlot(SubSeq(pairs, 1, half), page_offset)
       IN IF ~first.ok THEN first
          ELSE LET rest == EncodePairs_RefusesFullSlot(
                             SubSeq(pairs, half + 1, Len(pairs)),
                             page_offset + (KEY_SIZE + VALUE_SIZE) * half)
               IN IF rest.ok THEN Ok(first.val \o rest.val) ELSE rest

\* the pairs of a leaf, written from page_offset on
RECURSIVE EncodePairs(_, _)
EncodePairs(pairs, page_offset) ==
  IF pairs = <<>> THEN Ok(<<>>)
  ELSE IF Len(pairs) = 1 THEN
    LET pair == pairs[1] IN
    IF Len(pair.key) > KEY_SIZE THEN Err("KeyOverflowError")
    ELSE IF page_offset + KEY_SIZE > PAGE_SIZE THEN Err("Panic")
    ELSE IF Len(pair.value) > VALUE_SIZE THEN Err("ValueOverflowError")
    ELSE IF page_offset + KEY_SIZE + VALUE_SIZE > PAGE_SIZE THEN Err("Panic")
    ELSE Ok(Slot(pair.key, KEY_SIZE) \o Slot(pair.value, VALUE_SIZE))
  ELSE LET half == Len(pairs) \div 2
           first == EncodePairs(SubSeq(pairs, 1, half), page_offset)
       IN IF ~first.ok THEN first
          ELSE LET rest == EncodePairs(SubSeq(pairs, half + 1, Len(pairs)),
                                       page_offset + (KEY_SIZE + VALUE_SIZE) * half)
               IN IF rest.ok THEN Ok(first.val \o rest.val) ELSE rest

\* impl TryFrom<&Node> for Page
PageTryFrom(node) ==
  LET header(count) ==
        <<bool_to_byte(node.is_root), NodeTypeTag(node.node_type)>>
        \o (IF node.is_root THEN Zeros(PARENT_POINTER_SIZE)
            ELSE to_be_bytes(node.parent_offset[1]))
        \o to_be_bytes(count)
  IN
  IF ~node.is_root /\ node.parent_offset = None THEN Err("UnexpectedError")
  ELSE IF node.node_type = "Internal" THEN
    LET cs == EncodeChildren(node.children, INTERNAL_NODE_HEADER_SIZE)
        ks == EncodeKeys(node.keys, INTERNAL_NODE_HEADER_SIZE + PTR_SIZE * Len(node.children))
    IN IF ~cs.ok THEN cs
       ELSE IF ~ks.ok THEN ks
       ELSE Ok(Page(header(Len(node.children)) \o cs.val \o ks.val))
  ELSE IF node.node_type = "Leaf" THEN
    LET ps == EncodePairs(node.pairs, LEAF_NODE_HEADER_SIZE)
    IN IF ~ps.ok THEN ps
       ELSE Ok(Page(header(Len(node.pairs)) \o ps.val))
  ELSE Err("UnexpectedError")

\* impl TryFrom<Page> for Node
NodeTryFrom(page) ==
  LET node_type == NodeTypeFromTag(ByteAt(page, NODE_TYPE_OFFSET))
      is_root == byte_to_bool(ByteAt(page, IS_ROOT_OFFSET))
      parent_offset == IF is_root THEN None
                       ELSE Some(get_value_from_offset(page, PARENT_POINTER_OFFSET))
  IN
  IF node_type = "Internal" THEN
    LET num_children == get_value_from_offset(page, INTERNAL_NODE_NUM_CHILDREN_OFFSET)
        keys_offset == INTERNAL_NODE_HEADER_SIZE + PTR_SIZE * num_children
        num_keys == IF num_children = 0 THEN 0 ELSE num_children - 1
        children == [i \in 1..num_children |->
                       get_value_from_offset(page, INTERNAL_NODE_HEADER_SIZE + PTR_SIZE * (i - 1))]
        raw_keys == [i \in 1..num_keys |->
                       get_ptr_from_offset(page, keys_offset + KEY_SIZE * (i - 1), KEY_SIZE)]
    IN IF keys_offset + KEY_SIZE * num_keys > PAGE_SIZE THEN Err("Panic")
       ELSE IF \E i \in 1..num_keys : ~IsUtf8(raw_keys[i]) THEN Err("UTF8Error")
       ELSE Ok(Internal(children, [i \in 1..num_keys |-> trim_matches(raw_keys[i])],
                        is_root, parent_offset))
  ELSE IF node_type = "Leaf" THEN
    LET num_keys_val_pairs == get_value_from_offset(page, LEAF_NODE_NUM_PAIRS_OFFSET)
        raw_key(i) == get_ptr_from_offset(
                        page, LEAF_NODE_HEADER_SIZE + (KEY_SIZE + VALUE_SIZE) * (i - 1), KEY_SIZE)
        raw_value(i) == get_ptr_from_offset(
                        page, LEAF_NODE_HEADER_SIZE + (KEY_SIZE + VALUE_SIZE) * (i - 1) + KEY_SIZE,
                        VALUE_SIZE)
    IN IF LEAF_NODE_HEADER_SIZE + (KEY_SIZE + VALUE_SIZE) * num_keys_val_pairs > PAGE_SIZE
       THEN Err("Panic")
       ELSE IF \E i \in 1..num_keys_val_pairs : ~IsUtf8(raw_key(i)) \/ ~IsUtf8(raw_value(i))
       THEN Err("UTF8Error")
       ELSE Ok(Leaf([i \in 1..num_keys_val_pairs |->
                       KeyValuePair(trim_matches(raw_key(i)), trim_matches(raw_value(i)))],
                    is_root, parent_offset))
  ELSE Err("UnexpectedError")

\* ------------------------------------------------------------------------
\* Rust library operations used by the program
\* ------------------------------------------------------------------------
\* the ? operator: continue with the value of an Ok, return an Err as it is
Try(r, F(_)) == LET res == r IN IF res.ok THEN F(res.val) ELSE res

\* Vec::insert(idx, x), idx counted from 0
VecInsert(v, idx, x) == SubSeq(v, 1, idx) \o <<x>> \o SubSeq(v, idx + 1, Len(v))

\* [T]::binary_search(..).unwrap_or_else(|x| x) on a sorted slice, as a set of
\* 0-based indices: the position of a match -- when several elements match,
\* the library may return any of them -- or else the insertion point
BinarySearchIdx(keys, key) ==
  LET matches == {i \in 1..Len(keys) : keys[i] = key}
  IN IF matches # {} THEN {i - 1 : i \in matches}
     ELSE {Cardinality({i \in 1..Len(keys) : StrLess(keys[i], key)})}

\* the keys of a vector of pairs (KeyValuePair is ordered and compared by key)
PairKeys(pairs) == [i \in 1..Len(pairs) |-> pairs[i].key]

\* ------------------------------------------------------------------------
\* Pager (pager.rs).  file maps the offset of a page to its image; log is
\* the sequence of writes issued since the running insert began.
\* ------------------------------------------------------------------------
NoFile == [o \in {} |-> <<>>]

FileWrite(file, offset, page) ==
  [o \in (DOMAIN file) \cup {offset} |-> IF o = offset THEN page ELSE file[o]]

\* Pager::new
PagerNew == [file |-> NoFile, cursor |-> 0, log |-> <<>>]

\* write_page returning the cursor as it is after the write
write_page_returns_next(pager, page) ==
  Ok([pager |-> [file |-> FileWrite(pager.file, pager.cursor, page),
                 cursor |-> pager.cursor + PAGE_SIZE,
                 log |-> Append(pager.log, <<"write_page", pager.cursor>>)],
      offset |-> pager.cursor + PAGE_SIZE])

\* Pager::write_page
write_page(pager, page) ==
  Ok([pager |-> [file |-> FileWrite(pager.file, pager.cursor, page),
                 cursor |-> pager.cursor + PAGE_SIZE,
                 log |-> Append(pager.log, <<"write_page", pager.cursor>>)],
      offset |-> pager.cursor])

\* Pager::write_page_at_offset
write_page_at_offset(pager, page, offset) ==
  Ok([file |-> FileWrite(pager.file, offset, page),
      cursor |-> pager.cursor,
      log |-> Append(pager.log, <<"write_page_at_offset", offset>>)])

\* Pager::get_page (read_exact fails past the end of the file)
get_page(pager, offset) ==
  IF offset \in DOMAIN pager.file THEN Ok(pager.file[offset]) ELSE Err("UnexpectedError")

\* ------------------------------------------------------------------------
\* Node::split (node.rs)
\* ------------------------------------------------------------------------
\* Node::split whose internal arm builds the sibling as the leaf arm does
NodeSplit_SiblingLeaf(self, branches) ==
  IF self.node_type = "Internal" THEN
    Ok([self |-> [self EXCEPT !.keys = SubSeq(self.keys, 1, branches - 1),
                              !.children = SubSeq(self.children, 1, branches)],
        median |-> self.keys[branches],
        sibling |-> Leaf(<<>>, FALSE, self.parent_offset)])
  ELSE IF self.node_type = "Leaf" THEN
    Ok([self |-> [self EXCEPT !.pairs = SubSeq(self.pairs, 1, branches)],
        median |-> self.pairs[branches].key,
        sibling |-> Leaf(SubSeq(self.pairs, branches + 1, Len(self.pairs)),
                         FALSE, self.parent_offset)])
  ELSE Err("UnexpectedError")

\* Node::split whose internal arm splits the children where it splits the
\* keys, at branches - 1
NodeSplit_ChildrenAtKeys(self, branches) ==
  IF self.node_type = "Internal" THEN
    Ok([self |-> [self EXCEPT !.keys = SubSeq(self.keys, 1, branches - 1),
                              !.children = SubSeq(self.children, 1, branches - 1)],
        median |-> self.keys[branches],
        sibling |-> Internal(SubSeq(self.children, branches, Len(self.children)),
                             SubSeq(self.keys, branches + 1, Len(self.keys)),
                             FALSE, self.parent_offset)])
  ELSE IF self.node_type = "Leaf" THEN
    Ok([self |-> [self EXCEPT !.pairs = SubSeq(self.pairs, 1, branches)],
        median |-> self.pairs[branches].key,
        sibling |-> Leaf(SubSeq(self.pairs, branches + 1, Len(self.pairs)),
                         FALSE, self.parent_offset)])
  ELSE Err("UnexpectedError")

\* Node::split whose leaf arm takes the median pair out of the node, as the
\* internal arm takes the median key out
NodeSplit_LeafDropsMedian(self, branches) ==
  IF self.node_type = "Internal" THEN
    Ok([self |-> [self EXCEPT !.keys = SubSeq(self.keys, 1, branches - 1),
                              !.children = SubSeq(self.children, 1, branches)],
        median |-> self.keys[branches],
        sibling |-> Internal(SubSeq(self.children, branches + 1, Len(self.children)),
                             SubSeq(self.keys, branches + 1, Len(self.keys)),
                             FALSE, self.parent_offset)])
  ELSE IF self.node_type = "Leaf" THEN
    Ok([self |-> [self EXCEPT !.pairs = SubSeq(self.pairs, 1, branches - 1)],
        median |-> self.pairs[branches].key,
        sibling |-> Leaf(SubSeq(self.pairs, branches + 1, Len(self.pairs)),
                         FALSE, self.parent_offset)])
  ELSE Err("UnexpectedError")

\* Node::split whose leaf arm moves no pair to the sibling
NodeSplit_EmptySibling(self, branches) ==
  IF self.node_type = "Internal" THEN
    IF branches - 1 > Len(self.keys) \/ Len(self.keys) < branches
       \/ branches > Len(self.children)
    THEN Err("Panic")
    ELSE Ok([self |-> [self EXCEPT !.keys = SubSeq(self.keys, 1, branches - 1),
                                   !.children = SubSeq(self.children, 1, branches)],
             median |-> self.keys[branches],
             sibling |-> Internal(SubSeq(self.children, branches + 1, Len(self.children)),
                                  SubSeq(self.keys, branches + 1, Len(self.keys)),
                                  FALSE, self.parent_offset)])
  ELSE IF self.node_type = "Leaf" THEN
    IF branches > Len(self.pairs) THEN Err("Panic")
    ELSE IF branches - 1 < 0 THEN Err("UnexpectedError")
    ELSE Ok([self |-> self,
             median |-> self.pairs[branches].key,
             sibling |-> Leaf(<<>>, FALSE, self.parent_offset)])
  ELSE Err("UnexpectedError")

\* Node::split whose leaf arm returns as median the key of the first pair of
\* the sibling
NodeSplit_MedianFromSibling(self, branches) ==
  IF self.node_type = "Internal" THEN
    IF branches - 1 > Len(self.keys) \/ Len(self.keys) < branches
       \/ branches > Len(self.children)
    THEN Err("Panic")
    ELSE Ok([self |-> [self EXCEPT !.keys = SubSeq(self.keys, 1, branches - 1),
                                   !.children = SubSeq(self.children, 1, branches)],
             median |-> self.keys[branches],
             sibling |-> Internal(SubSeq(self.children, branches + 1, Len(self.children)),
                                  SubSeq(self.keys, branches + 1, Len(self.keys)),
                                  FALSE, self.parent_offset)])
  ELSE IF self.node_type = "Leaf" THEN
    IF branches + 1 > Len(self.pairs) THEN Err("Panic")
    ELSE Ok([self |-> [self EXCEPT !.pairs = SubSeq(self.pairs, 1, branches)],
             median |-> self.pairs[branches + 1].key,
             sibling |-> Leaf(SubSeq(self.pairs, branches + 1, Len(self.pairs)),
                              FALSE, self.parent_offset)])
  ELSE Err("UnexpectedError")

\* Node::split whose internal arm leaves the median key in the sibling
NodeSplit_MedianStaysInSibling(self, branches) ==
  IF self.node_type = "Internal" THEN
    IF branches - 1 > Len(self.keys) \/ Len(self.keys) < branches
       \/ branches > Len(self.children)
    THEN Err("Panic")
    ELSE Ok([self |-> [self EXCEPT !.keys = SubSeq(self.keys, 1, branches - 1),
                                   !.children = SubSeq(self.children, 1, branches)],
             median |-> self.keys[branches],
             sibling |-> Internal(SubSeq(self.children, branches + 1, Len(self.children)),
                                  SubSeq(self.keys, branches, Len(self.keys)),
                                  FALSE, self.parent_offset)])
  ELSE IF self.node_type = "Leaf" THEN
    IF branches > Len(self.pairs) THEN Err("Panic")
    ELSE IF branches - 1 < 0 THEN Err("UnexpectedError")
    ELSE Ok([self |-> [self EXCEPT !.pairs = SubSeq(self.pairs, 1, branches)],
             median |-> self.pairs[branches].key,
             sibling |-> Leaf(SubSeq(self.pairs, branches + 1, Len(self.pairs)),
                              FALSE, self.parent_offset)])
  ELSE Err("UnexpectedError")

\* Node::split: the node as left behind, the median key and the sibling
NodeSplit(self, branches) ==
  IF self.node_type = "Internal" THEN
    IF branches - 1 > Len(self.keys) \/ Len(self.keys) < branches
       \/ branches > Len(self.children)
    THEN Err("Panic")
    ELSE Ok([self |-> [self EXCEPT !.keys = SubSeq(self.keys, 1, branches - 1),
                                   !.children = SubSeq(self.children, 1, branches)],
             median |-> self.keys[branches],
             sibling |-> Internal(SubSeq(self.children, branches + 1, Len(self.children)),
                                  SubSeq(self.keys, branches + 1, Len(self.keys)),
                                  FALSE, self.parent_offset)])
  ELSE IF self.node_type = "Leaf" THEN
    IF branches > Len(self.pairs) THEN Err("Panic")
    ELSE IF branches - 1 < 0 THEN Err("UnexpectedError")
    ELSE Ok([self |-> [self EXCEPT !.pairs = SubSeq(self.pairs, 1, branches)],
             median |-> self.pairs[branches].key,
             sibling |-> Leaf(SubSeq(self.pairs, branches + 1, Len(self.pairs)),
                              FALSE, self.parent_offset)])
  ELSE Err("UnexpectedError")

\* ------------------------------------------------------------------------
\* BTree (btree.rs)
\* ------------------------------------------------------------------------
\* BTree::is_node_full
is_node_full(node, branches) ==
  IF node.node_type = "Leaf" THEN Ok(Len(node.pairs) = 2 * branches - 1)
  ELSE IF node.node_type = "Internal" THEN Ok(Len(node.keys) = 2 * branches - 1)
  ELSE Err("UnexpectedError")

\* insert creating the new root of a split as a node that is not the root,
\* with the old root as its parent
InsertRoot_NewRootNotRoot(pager, root_offset, branches) ==
  Try(get_page(pager, root_offset), LAMBDA root_page :
  Try(NodeTryFrom(root_page), LAMBDA root0 :
  Try(is_node_full(root0, branches), LAMBDA full :
  IF full THEN
    LET new_root0 == Internal(<<>>, <<>>, FALSE, Some(root_offset)) IN
    Try(PageTryFrom(new_root0), LAMBDA page1 :
    Try(write_page(pager, page1), LAMBDA w1 :
    LET new_root_offset == w1.offset
        root1 == [root0 EXCEPT !.parent_offset = Some(new_root_offset), !.is_root = FALSE]
    IN
    Try(NodeSplit(root1, branches), LAMBDA sp :
    Try(PageTryFrom(sp.self), LAMBDA page2 :
    Try(write_page(w1.pager, page2), LAMBDA w2 :
    Try(PageTryFrom(sp.sibling), LAMBDA page3 :
    Try(write_page(w2.pager, page3), LAMBDA w3 :
    LET new_root == Internal(<<w2.offset, w3.offset>>, <<sp.median>>, FALSE,
                             Some(root_offset)) IN
    Try(PageTryFrom(new_root), LAMBDA page4 :
    Try(write_page_at_offset(w3.pager, page4, new_root_offset), LAMBDA pager4 :
    Ok([pager |-> pager4, node |-> new_root, node_offset |-> new_root_offset]))))))))))
  ELSE
    Try(PageTryFrom(root0), LAMBDA page1 :
    Try(write_page(pager, page1), LAMBDA w1 :
    Ok([pager |-> w1.pager, node |-> root0, node_offset |-> w1.offset]))))))

\* BTree::insert up to its call of insert_non_full: the root is read, and
\* split under a new root if it is full or else copied to a fresh page
InsertRoot(pager, root_offset, branches) ==
  Try(get_page(pager, root_offset), LAMBDA root_page :
  Try(NodeTryFrom(root_page), LAMBDA root0 :
  Try(is_node_full(root0, branches), LAMBDA full :
  IF full THEN
    LET new_root0 == Internal(<<>>, <<>>, TRUE, None) IN
    Try(PageTryFrom(new_root0), LAMBDA page1 :
    Try(write_page(pager, page1), LAMBDA w1 :
    LET new_root_offset == w1.offset
        root1 == [root0 EXCEPT !.parent_offset = Some(new_root_offset), !.is_root = FALSE]
    IN
    Try(NodeSplit(root1, branches), LAMBDA sp :
    Try(PageTryFrom(sp.self), LAMBDA page2 :
    Try(write_page(w1.pager, page2), LAMBDA w2 :
    Try(PageTryFrom(sp.sibling), LAMBDA page3 :
    Try(write_page(w2.pager, page3), LAMBDA w3 :
    LET new_root == Internal(<<w2.offset, w3.offset>>, <<sp.median>>, TRUE, None) IN
    Try(PageTryFrom(new_root), LAMBDA page4 :
    Try(write_page_at_offset(w3.pager, page4, new_root_offset), LAMBDA pager4 :
    Ok([pager |-> pager4, node |-> new_root, node_offset |-> new_root_offset]))))))))))
  ELSE
    Try(PageTryFrom(root0), LAMBDA page1 :
    Try(write_page(pager, page1), LAMBDA w1 :
    Ok([pager |-> w1.pager, node |-> root0, node_offset |-> w1.offset]))))))

\* insert_non_full on a leaf pushing the pair at the end of the vector
InsertNonFullLeaf_Push(pager, node, node_offset, kv, idx) ==
  LET node1 == [node EXCEPT !.pairs = Append(node.pairs, kv)] IN
  Try(PageTryFrom(node1), LAMBDA page :
  Try(write_page_at_offset(pager, page, node_offset), LAMBDA pager1 :
  Ok([pager |-> pager1, node |-> node1, node_offset |-> node_offset])))

\* insert_non_full on a leaf recording the leaf as the root in the WAL before
\* it writes the leaf
InsertNonFullLeaf_SetsRootFirst(pager, node, node_offset, kv, idx) ==
  LET node1 == [node EXCEPT !.pairs = VecInsert(node.pairs, idx, kv)]
      pager0 == [pager EXCEPT !.log = Append(@, <<"set_root", node_offset>>)]
  IN
  Try(PageTryFrom(node1), LAMBDA page :
  Try(write_page_at_offset(pager0, page, node_offset), LAMBDA pager1 :
  Ok([pager |-> pager1, node |-> node1, node_offset |-> node_offset])))

\* BTree::insert_non_full on a leaf: the pair goes in at the position the
\* binary search gives and the page is rewritten at node_offset
InsertNonFullLeaf(pager, node, node_offset, kv, idx) ==
  LET node1 == [node EXCEPT !.pairs = VecInsert(node.pairs, idx, kv)] IN
  Try(PageTryFrom(node1), LAMBDA page :
  Try(write_page_at_offset(pager, page, node_offset), LAMBDA pager1 :
  Ok([pager |-> pager1, node |-> node1, node_offset |-> node_offset])))

\* insert_non_full on an internal node rewriting the child where it is
\* instead of copying it to a fresh page
InsertNonFullInternal_InPlace(pager, node, node_offset, kv, idx, branches) ==
  IF idx >= Len(node.children) THEN Err("UnexpectedError") ELSE
  LET child_offset == node.children[idx + 1] IN
  Try(get_page(pager, child_offset), LAMBDA child_page :
  Try(NodeTryFrom(child_page), LAMBDA child :
  Try(PageTryFrom(child), LAMBDA page1 :
  Try(write_page_at_offset(pager, page1, child_offset), LAMBDA pager1 :
  LET new_child_offset == child_offset IN
  Try(is_node_full(child, branches), LAMBDA full :
  IF full THEN
    Try(NodeSplit(child, branches), LAMBDA sp :
    Try(PageTryFrom(sp.self), LAMBDA page2 :
    Try(write_page_at_offset(pager1, page2, new_child_offset), LAMBDA pager2 :
    Try(PageTryFrom(sp.sibling), LAMBDA page3 :
    Try(write_page(pager2, page3), LAMBDA w3 :
    LET sibling_offset == w3.offset
        node1 == [node EXCEPT !.children = VecInsert(node.children, idx + 1, sibling_offset),
                              !.keys = VecInsert(node.keys, idx, sp.median)]
    IN
    Try(PageTryFrom(node1), LAMBDA page4 :
    Try(write_page_at_offset(w3.pager, page4, node_offset), LAMBDA pager4 :
    IF StrLeq(kv.key, sp.median)
    THEN Ok([pager |-> pager4, node |-> sp.self, node_offset |-> new_child_offset,
             via |-> "split_child"])
    ELSE Ok([pager |-> pager4, node |-> sp.sibling, node_offset |-> sibling_offset,
             via |-> "split_sibling"]))))))))
  ELSE
    Try(PageTryFrom(node), LAMBDA page4 :
    Try(write_page_at_offset(pager1, page4, node_offset), LAMBDA pager4 :
    Ok([pager |-> pager4, node |-> child, node_offset |-> new_child_offset,
        via |-> "child"]))))))))

\* BTree::insert_non_full on an internal node, up to the recursive call: the
\* child at idx is copied to a fresh page, split if it is full, the node is
\* rewritten at node_offset; node and node_offset of the result are the
\* arguments of the recursive call
InsertNonFullInternal(pager, node, node_offset, kv, idx, branches) ==
  IF idx >= Len(node.children) THEN Err("UnexpectedError") ELSE
  LET child_offset == node.children[idx + 1] IN
  Try(get_page(pager, child_offset), LAMBDA child_page :
  Try(NodeTryFrom(child_page), LAMBDA child :
  Try(PageTryFrom(child), LAMBDA page1 :
  Try(write_page(pager, page1), LAMBDA w1 :
  LET new_child_offset == w1.offset
      children1 == [node.children EXCEPT ![idx + 1] = new_child_offset]
  IN
  Try(is_node_full(child, branches), LAMBDA full :
  IF full THEN
    Try(NodeSplit(child, branches), LAMBDA sp :
    Try(PageTryFrom(sp.self), LAMBDA page2 :
    Try(write_page_at_offset(w1.pager, page2, new_child_offset), LAMBDA pager2 :
    Try(PageTryFrom(sp.sibling), LAMBDA page3 :
    Try(write_page(pager2, page3), LAMBDA w3 :
    LET sibling_offset == w3.offset
        node1 == [node EXCEPT !.children = VecInsert(children1, idx + 1, sibling_offset),
                              !.keys = VecInsert(node.keys, idx, sp.median)]
    IN
    Try(PageTryFrom(node1), LAMBDA page4 :
    Try(write_page_at_offset(w3.pager, page4, node_offset), LAMBDA pager4 :
    IF StrLeq(kv.key, sp.median)
    THEN Ok([pager |-> pager4, node |-> sp.self, node_offset |-> new_child_offset,
             via |-> "split_child"])
    ELSE Ok([pager |-> pager4, node |-> sp.sibling, node_offset |-> sibling_offset,
             via |-> "split_sibling"]))))))))
  ELSE
    LET node1 == [node EXCEPT !.children = children1] IN
    Try(PageTryFrom(node1), LAMBDA page4 :
    Try(write_page_at_offset(w1.pager, page4, node_offset), LAMBDA pager4 :
    Ok([pager |-> pager4, node |-> child, node_offset |-> new_child_offset,
        via |-> "child"]))))))))

\* search_node with a leaf arm that takes the position the binary search
\* gives whether or not the key was found there
RECURSIVE search_node_any_position(_, _, _)
search_node_any_position(pager, node, search) ==
  IF node.node_type = "Internal" THEN
    UNION {IF idx >= Len(node.children) THEN {Err("UnexpectedError")}
           ELSE LET page == get_page(pager, node.children[idx + 1]) IN
                IF ~page.ok THEN {page}
                ELSE LET child_node == NodeTryFrom(page.val) IN
                     IF ~child_node.ok THEN {child_node}
                     ELSE search_node_any_position(pager, child_node.val, search)
           : idx \in BinarySearchIdx(node.keys, search)}
  ELSE IF node.node_type = "Leaf" THEN
    {IF idx < Len(node.pairs) THEN Ok(node.pairs[idx + 1]) ELSE Err("KeyNotFound")
     : idx \in BinarySearchIdx(PairKeys(node.pairs), search)}
  ELSE {Err("UnexpectedError")}

\* BTree::search_node: the set of results the search may return (one result
\* unless a binary search meets several equal keys)
RECURSIVE search_node(_, _, _)
search_node(pager, node, search) ==
  IF node.node_type = "Internal" THEN
    UNION {IF idx >= Len(node.children) THEN {Err("UnexpectedError")}
           ELSE LET page == get_page(pager, node.children[idx + 1]) IN
                IF ~page.ok THEN {page}
                ELSE LET child_node == NodeTryFrom(page.val) IN
                     IF ~child_node.ok THEN {child_node}
                     ELSE search_node(pager, child_node.val, search)
           : idx \in BinarySearchIdx(node.keys, search)}
  ELSE IF node.node_type = "Leaf" THEN
    LET found == {i \in 1..Len(node.pairs) : node.pairs[i].key = search}
    IN IF found # {} THEN {Ok(node.pairs[i]) : i \in found} ELSE {Err("KeyNotFound")}
  ELSE {Err("UnexpectedError")}

\* BTree::search
search(pager, wal, key) ==
  LET root_page == get_page(pager, wal.root) IN
  IF ~root_page.ok THEN {root_page}
  ELSE LET root == NodeTryFrom(root_page.val) IN
       IF ~root.ok THEN {root} ELSE search_node(pager, root.val, key)

\* ------------------------------------------------------------------------
\* WAL (its source is not in the excerpt; spec.md 4.3: one value, the root
\* offset; after set_root(x), get_root returns x until the next set_root)
\* ------------------------------------------------------------------------
WalNew == [root |-> 0]
set_root(wal, offset) == Ok([wal EXCEPT !.root = offset])
get_root(wal) == Ok(wal.root)

\* BTree::new
BTreeNew(branches) ==
  IF branches = 0 \/ branches > MAX_BRANCHING_FACTOR THEN Err("UnexpectedError")
  ELSE
    LET root == Leaf(<<>>, TRUE, None) IN
    Try(PageTryFrom(root), LAMBDA page :
    Try(write_page(PagerNew, page), LAMBDA w :
    Try(set_root(WalNew, w.offset), LAMBDA wal1 :
    Ok([pager |-> w.pager, branches |-> branches, wal |-> wal1]))))

\* BTree::new checking branches only after Pager::new has truncated the file
BTreeNewOnDisk_TruncatesFirst(file, wal0, branches) ==
  LET r == BTreeNew(branches) IN
  IF r.ok THEN [res |-> r, file |-> r.val.pager.file, wal |-> r.val.wal]
  ELSE [res |-> r, file |-> PagerNew.file, wal |-> wal0]

\* BTree::new with what it leaves on disk: its result, the backing file
\* and the WAL
BTreeNewOnDisk(file, wal0, branches) ==
  IF branches = 0 \/ branches > MAX_BRANCHING_FACTOR
  THEN [res |-> Err("UnexpectedError"), file |-> file, wal |-> wal0]
  ELSE LET r == BTreeNew(branches) IN
       IF r.ok THEN [res |-> r, file |-> r.val.pager.file, wal |-> r.val.wal]
       ELSE [res |-> r, file |-> PagerNew.file, wal |-> wal0]

\* ------------------------------------------------------------------------
\* Inputs
\* ------------------------------------------------------------------------
\* "a", "b", "c", a key of KEY_SIZE bytes and a key of KEY_SIZE + 1 bytes
KeyA == <<97>>
KeyB == <<98>>
KeyC == <<99>>
KeyFull == [i \in 1..KEY_SIZE |-> 106]
KeyLong == [i \in 1..(KEY_SIZE + 1) |-> 107]
\* "v", "w", a value of VALUE_SIZE bytes and a value of VALUE_SIZE + 1 bytes
ValV == <<118>>
ValW == <<119>>
ValFull == [i \in 1..VALUE_SIZE |-> 117]
ValLong == [i \in 1..(VALUE_SIZE + 1) |-> 120]

\* the pairs offered to insert, by workload; keys and values are without
\* NUL bytes (spec.md 3).  ValidInputs: three keys.  OverflowInputs: a pair
\* that fills its slots, a key that is too long, a value that is too long,
\* both too long.  DupInputs: one key under two values.  TwoInputs: two keys,
\* for longer runs.
ValidInputs ==
  {KeyValuePair(KeyA, ValV), KeyValuePair(KeyB, ValW), KeyValuePair(KeyC, ValV)}
OverflowInputs ==
  {KeyValuePair(KeyFull, ValFull), KeyValuePair(KeyLong, ValV),
   KeyValuePair(KeyA, ValLong), KeyValuePair(KeyLong, ValLong)}
DupInputs ==
  {KeyValuePair(KeyB, ValV), KeyValuePair(KeyB, ValW)}
TwoInputs ==
  {KeyValuePair(KeyA, ValV), KeyValuePair(KeyB, ValV)}
\* the pair of the (n+1)-th insert of a run in a fixed order: the keys "a",
\* "b", "c", ... ascending, the keys "z", "y", "x", ... descending, or the
\* pair ("a", "v") every time
AscInput(n) == KeyValuePair(<<97 + n>>, ValV)
DescInput(n) == KeyValuePair(<<122 - n>>, ValV)
SameInput(n) == KeyValuePair(KeyA, ValV)
FreeWorkloads == {"valid", "overflow", "dup", "two"}
OrderedWorkloads == {"asc", "desc", "same"}
Workloads == FreeWorkloads \cup OrderedWorkloads
\* the pairs a behaviour of workload l may insert after n insert calls
InsertInputs(l, n) ==
  IF l = "valid" THEN ValidInputs
  ELSE IF l = "overflow" THEN OverflowInputs
  ELSE IF l = "dup" THEN DupInputs
  ELSE IF l = "two" THEN TwoInputs
  ELSE IF l = "asc" THEN {AscInput(n)}
  ELSE IF l = "desc" THEN {DescInput(n)}
  ELSE {SameInput(n)}
InsertLimit(l, b) ==
  IF b = 1 THEN MaxInserts
  ELSE IF l = "same" THEN MaxInsertsSame
  ELSE IF l \in OrderedWorkloads THEN MaxInsertsOrdered
  ELSE IF l = "two" THEN MaxInsertsTwo
  ELSE MaxInserts

\* the keys offered to search
SearchInputs == {KeyA, KeyB}

\* ------------------------------------------------------------------------
\* State
\* ------------------------------------------------------------------------
VARIABLES
  load,             \* the workload this behaviour draws its inserts from
  branches,         \* BTree.branches
  pager,            \* BTree.pager
  wal,              \* BTree.wal
  pc,               \* "idle", or the position of the running insert:
                    \* "insert_non_full" (a call of it is about to run),
                    \* "set_root" (insert_non_full returned Ok)
  kv,               \* insert: the pair being inserted
  node,             \* insert_non_full: its argument node
  node_offset,      \* insert_non_full: its argument node_offset
  via,              \* insert_non_full: the call that is about to run it:
                    \* "insert" (btree.rs line 67), "child" (line 112),
                    \* "split_child" (line 106), "split_sibling" (line 108)
  new_root_offset,  \* insert: new_root_offset
  root_offset,      \* insert: root_offset, the WAL root read at its start
  calls,            \* number of insert calls made
  last,             \* the last call that returned, with its result
  inserted,         \* history: the bag of pairs whose insert returned Ok
  pre               \* history: the results of every search as they were
                    \* when the last insert was called

vars == <<load, branches, pager, wal, pc, kv, node, node_offset, via, new_root_offset,
          root_offset, calls, last, inserted, pre>>

NoNode == UnexpectedNode(FALSE, None)
NoPair == KeyValuePair(<<>>, <<>>)
Returned(op, arg, res) == [op |-> op, arg |-> arg, res |-> res]
Running == Returned("running", <<>>, Ok(<<>>))

SearchAll == [k \in SearchInputs |-> search(pager, wal, k)]

Init ==
  \E b \in 1..MaxBranches :
    LET bt == BTreeNew(b) IN
    /\ bt.ok
    /\ load \in Workloads
    /\ branches = bt.val.branches
    /\ pager = bt.val.pager
    /\ wal = bt.val.wal
    /\ pc = "idle"
    /\ kv = NoPair
    /\ node = NoNode
    /\ node_offset = 0
    /\ via = "none"
    /\ new_root_offset = 0
    /\ root_offset = 0
    /\ calls = 0
    /\ last = Returned("new", b, Ok(<<>>))
    /\ inserted = EmptyBag
    /\ pre = [k \in SearchInputs |-> {}]

\* insert recording the new root in the WAL also when it returns an error
InsertFails_SetsRoot(arg, r, pager1) ==
  /\ pc' = "idle"
  /\ pager' = pager1
  /\ wal' = set_root(wal, new_root_offset).val
  /\ last' = Returned("insert", arg, r)
  /\ kv' = NoPair
  /\ node' = NoNode
  /\ node_offset' = 0
  /\ via' = "none"
  /\ new_root_offset' = 0
  /\ UNCHANGED <<load, branches, inserted>>

\* insert returns an error: its locals are gone, the WAL is as it was
InsertFails(arg, r, pager1) ==
  /\ pc' = "idle"
  /\ pager' = pager1
  /\ last' = Returned("insert", arg, r)
  /\ kv' = NoPair
  /\ node' = NoNode
  /\ node_offset' = 0
  /\ via' = "none"
  /\ new_root_offset' = 0
  /\ UNCHANGED <<load, branches, wal, inserted>>

\* BTree::insert is called with some pair kv_in and runs up to its call of
\* insert_non_full
Insert ==
  /\ pc = "idle"
  /\ calls < InsertLimit(load, branches)
  /\ calls' = calls + 1
  /\ pre' = SearchAll
  /\ LET pager0 == [pager EXCEPT !.log = <<>>]
         r == Try(get_root(wal), LAMBDA off : InsertRoot(pager0, off, branches))
     IN /\ root_offset' = get_root(wal).val
        /\ \E kv_in \in InsertInputs(load, calls) :
             IF r.ok
             THEN /\ pager' = r.val.pager
                  /\ node' = r.val.node
                  /\ node_offset' = r.val.node_offset
                  /\ via' = "insert"
                  /\ new_root_offset' = r.val.node_offset
                  /\ kv' = kv_in
                  /\ pc' = "insert_non_full"
                  /\ last' = Running
                  /\ UNCHANGED <<load, branches, wal, inserted>>
             ELSE InsertFails(kv_in, r, pager0)

\* insert_non_full runs on a leaf and returns through every caller to insert
InsertLeaf ==
  /\ pc = "insert_non_full"
  /\ node.node_type = "Leaf"
  /\ \E idx \in BinarySearchIdx(PairKeys(node.pairs), kv.key) :
       LET r == InsertNonFullLeaf(pager, node, node_offset, kv, idx)
       IN IF r.ok
          THEN /\ pager' = r.val.pager
               /\ pc' = "set_root"
               /\ node' = NoNode
               /\ node_offset' = 0
               /\ via' = "none"
               /\ UNCHANGED <<load, branches, wal, kv, new_root_offset, last, inserted>>
          ELSE InsertFails(kv, r, pager)
  /\ UNCHANGED <<root_offset, calls, pre>>

\* insert_non_full runs on an internal node up to its recursive call
InsertInternal ==
  /\ pc = "insert_non_full"
  /\ node.node_type = "Internal"
  /\ \E idx \in BinarySearchIdx(node.keys, kv.key) :
       LET r == InsertNonFullInternal(pager, node, node_offset, kv, idx, branches)
       IN IF r.ok
          THEN /\ pager' = r.val.pager
               /\ node' = r.val.node
               /\ node_offset' = r.val.node_offset
               /\ via' = r.val.via
               /\ UNCHANGED <<load, branches, wal, pc, kv, new_root_offset, last, inserted>>
          ELSE InsertFails(kv, r, pager)
  /\ UNCHANGED <<root_offset, calls, pre>>

\* insert_non_full returned Ok: insert records the new root and returns
InsertSetRoot ==
  /\ pc = "set_root"
  /\ LET r == set_root(wal, new_root_offset)
     IN /\ r.ok
        /\ wal' = r.val
        /\ pager' = [pager EXCEPT !.log = Append(@, <<"set_root", new_root_offset>>)]
        /\ last' = Returned("insert", kv, Ok(<<>>))
        /\ inserted' = inserted (+) SetToBag({kv})
  /\ pc' = "idle"
  /\ kv' = NoPair
  /\ new_root_offset' = 0
  /\ UNCHANGED <<load, branches, node, node_offset, via, root_offset, calls, pre>>

\* BTree::search is called with key and returns
Search(key) ==
  /\ pc = "idle"
  /\ \E r \in search(pager, wal, key) : last' = Returned("search", key, r)
  /\ UNCHANGED <<load, branches, pager, wal, pc, kv, node, node_offset, via, new_root_offset,
                 root_offset, calls, inserted, pre>>

Next ==
  \/ Insert
  \/ InsertLeaf
  \/ InsertInternal
  \/ InsertSetRoot
  \/ \E key \in SearchInputs : Search(key)

Spec == Init /\ [][Next]_vars

\* ------------------------------------------------------------------------
\* Construction on a disk that may hold an earlier store.  Before BTree::new
\* has run, pager.file is the backing file as it lies on disk and wal is the
\* WAL file as it lies on disk.
\* ------------------------------------------------------------------------
\* the branching factors offered to BTree::new
NewBranches == 0..(MAX_BRANCHING_FACTOR + MaxExcess)

\* what the disk may hold before BTree::new: nothing, or the file and the
\* WAL of an earlier store with one pair in its root leaf
OldRootPage == PageTryFrom(Leaf(<<KeyValuePair(KeyA, ValV)>>, TRUE, None)).val
OldDisks ==
  {[file |-> NoFile, wal |-> WalNew],
   [file |-> FileWrite(FileWrite(NoFile, 0, OldRootPage), PAGE_SIZE, OldRootPage),
    wal |-> [root |-> PAGE_SIZE]]}

InitNew ==
  \E disk \in OldDisks :
    /\ load = "new"
    /\ branches = 0
    /\ pager = [file |-> disk.file, cursor |-> 0, log |-> <<>>]
    /\ wal = disk.wal
    /\ pc = "new"
    /\ kv = NoPair
    /\ node = NoNode
    /\ node_offset = 0
    /\ via = "none"
    /\ new_root_offset = 0
    /\ root_offset = 0
    /\ calls = 0
    /\ last = Returned("none", <<>>, Ok(<<>>))
    /\ inserted = EmptyBag
    /\ pre = [k \in SearchInputs |-> {}]

\* BTree::new is called with branches b and returns
New(b) ==
  /\ pc = "new"
  /\ LET r == BTreeNewOnDisk(pager.file, wal, b)
     IN /\ last' = Returned("new", b, IF r.res.ok THEN Ok(<<>>) ELSE r.res)
        /\ wal' = r.wal
        /\ IF r.res.ok
           THEN /\ pager' = r.res.val.pager
                /\ branches' = r.res.val.branches
                /\ pc' = "idle"
           ELSE /\ pager' = [pager EXCEPT !.file = r.file]
                /\ pc' = "failed"
                /\ UNCHANGED branches
  /\ UNCHANGED <<load, kv, node, node_offset, via, new_root_offset, root_offset, calls,
                 inserted, pre>>

NextNew == \E b \in NewBranches : New(b)

SpecNew == InitNew /\ [][NextNew]_vars

\* ------------------------------------------------------------------------
\* The codec on its own: a node is encoded to a page and the page decoded
\* ------------------------------------------------------------------------
\* the sequences over S of length up to n
SeqsUpTo(S, n) == UNION {[1..m -> S] : m \in 0..n}

\* keys and values of the nodes: short, filling the slot, too long, with a
\* NUL byte at the end, in front and in the middle
CodecKeys == {KeyA, KeyFull, KeyLong, <<97, 0>>, <<0, 98>>, <<97, 0, 98>>}
CodecValues == {ValV, ValLong, <<0>>}
\* offsets of one and of three significant bytes
CodecOffsets == {0, 257 * PAGE_SIZE}
CodecParents == {None, Some(PAGE_SIZE)}

CodecNodes ==
  {Leaf(pairs, is_root, parent) :
     pairs \in SeqsUpTo({KeyValuePair(k, v) : k \in CodecKeys, v \in CodecValues},
                        MaxCodecEntries),
     is_root \in BOOLEAN, parent \in CodecParents}
  \cup
  {Internal(f[1], f[2], is_root, parent) :
     f \in SeqsUpTo(CodecOffsets, MaxCodecEntries + 1) \X SeqsUpTo(CodecKeys, MaxCodecEntries),
     is_root \in BOOLEAN, parent \in CodecParents}
  \cup
  {UnexpectedNode(is_root, parent) : is_root \in BOOLEAN, parent \in CodecParents}

InitCodec ==
  /\ node \in CodecNodes
  /\ load = "codec"
  /\ branches = 0
  /\ pager = PagerNew
  /\ wal = WalNew
  /\ pc = "codec"
  /\ kv = NoPair
  /\ node_offset = 0
  /\ via = "none"
  /\ new_root_offset = 0
  /\ root_offset = 0
  /\ calls = 0
  /\ last = Returned("none", <<>>, Ok(<<>>))
  /\ inserted = EmptyBag
  /\ pre = [k \in SearchInputs |-> {}]

\* Page::try_from(&node), and Node::try_from of the page when that is Ok
RoundTrip ==
  /\ pc = "codec"
  /\ pc' = "done"
  /\ last' = Returned("round_trip", node,
                      Try(PageTryFrom(node), LAMBDA page : NodeTryFrom(page)))
  /\ UNCHANGED <<load, branches, pager, wal, kv, node, node_offset, via, new_root_offset,
                 root_offset, calls, inserted, pre>>

NextCodec == RoundTrip

SpecCodec == InitCodec /\ [][NextCodec]_vars

\* ------------------------------------------------------------------------
\* Node::split on its own: it is called on a node with a branching factor
\* ------------------------------------------------------------------------
\* the first n of a run of pairs with distinct keys, and n times one pair
SplitPairs(n) == {[i \in 1..n |-> AscInput(i)], [i \in 1..n |-> SameInput(i)]}
\* n distinct offsets
SplitChildren(n) == [i \in 1..n |-> i * PAGE_SIZE]

\* leaves of up to 2*MaxSplitBranches pairs, internal nodes of up to
\* 2*MaxSplitBranches keys with as many children or one more
SplitNodes ==
  {Leaf(pairs, is_root, parent) :
     pairs \in UNION {SplitPairs(n) : n \in 0..(2 * MaxSplitBranches)},
     is_root \in BOOLEAN, parent \in CodecParents}
  \cup
  {Internal(SplitChildren(f[2]), PairKeys(f[1]), is_root, parent) :
     f \in UNION {SplitPairs(n) \X {n, n + 1} : n \in 0..(2 * MaxSplitBranches)},
     is_root \in BOOLEAN, parent \in CodecParents}

InitSplit ==
  /\ node \in SplitNodes
  /\ branches \in 1..MaxSplitBranches
  /\ load = "split"
  /\ pager = PagerNew
  /\ wal = WalNew
  /\ pc = "split"
  /\ kv = NoPair
  /\ node_offset = 0
  /\ via = "none"
  /\ new_root_offset = 0
  /\ root_offset = 0
  /\ calls = 0
  /\ last = Returned("none", <<>>, Ok(<<>>))
  /\ inserted = EmptyBag
  /\ pre = [k \in SearchInputs |-> {}]

\* node.split(branches): node is the node as split leaves it, last.res holds
\* the median and the sibling it returns
Split ==
  /\ pc = "split"
  /\ pc' = "done"
  /\ LET r == NodeSplit(node, branches)
     IN /\ last' = Returned("split", node, r)
        /\ node' = IF r.ok THEN r.val.self ELSE node
  /\ UNCHANGED <<load, branches, pager, wal, kv, node_offset, via, new_root_offset,
                 root_offset, calls, inserted, pre>>

NextSplit == Split

SpecSplit == InitSplit /\ [][NextSplit]_vars

\* ------------------------------------------------------------------------
\* The pager on its own: pages are written and read through a fresh Pager.
\* write_page_at_offset is called with offsets write_page has returned, as
\* its callers in btree.rs call it.
\* ------------------------------------------------------------------------
\* two pages that differ
PagerPages ==
  {PageTryFrom(Leaf(<<AscInput(1)>>, TRUE, None)).val,
   PageTryFrom(Leaf(<<AscInput(2)>>, FALSE, Some(0))).val}

\* the offsets write_page has returned
Allocated == {pager.log[i][2] : i \in {j \in 1..Len(pager.log) : pager.log[j][1] = "write_page"}}

\* the offsets get_page is called with: the pages of the file and the first
\* past its end
PagerOffsets == {k * PAGE_SIZE : k \in 0..MaxPagerOps}

InitPager ==
  /\ pager = PagerNew
  /\ load = "pager"
  /\ branches = 0
  /\ wal = WalNew
  /\ pc = "pager"
  /\ kv = NoPair
  /\ node = NoNode
  /\ node_offset = 0
  /\ via = "none"
  /\ new_root_offset = 0
  /\ root_offset = 0
  /\ calls = 0
  /\ last = Returned("none", <<>>, Ok(<<>>))
  /\ inserted = EmptyBag
  /\ pre = [k \in SearchInputs |-> {}]

\* pager.write_page(page)
WritePage(page) ==
  /\ calls < MaxPagerOps
  /\ calls' = calls + 1
  /\ LET r == write_page(pager, page)
     IN /\ pager' = r.val.pager
        /\ last' = Returned("write_page", page, Ok(r.val.offset))
  /\ UNCHANGED <<load, branches, wal, pc, kv, node, node_offset, via, new_root_offset,
                 root_offset, inserted, pre>>

\* pager.write_page_at_offset(page, &offset)
WritePageAtOffset(page, offset) ==
  /\ calls < MaxPagerOps
  /\ calls' = calls + 1
  /\ LET r == write_page_at_offset(pager, page, offset)
     IN /\ pager' = r.val
        /\ last' = Returned("write_page_at_offset", <<page, offset>>, Ok(<<>>))
  /\ UNCHANGED <<load, branches, wal, pc, kv, node, node_offset, via, new_root_offset,
                 root_offset, inserted, pre>>

\* pager.get_page(&offset)
GetPage(offset) ==
  /\ calls < MaxPagerOps
  /\ calls' = calls + 1
  /\ last' = Returned("get_page", offset, get_page(pager, offset))
  /\ UNCHANGED <<load, branches, pager, wal, pc, kv, node, node_offset, via,
                 new_root_offset, root_offset, inserted, pre>>

NextPager ==
  \/ \E page \in PagerPages : WritePage(page)
  \/ \E page \in PagerPages : \E offset \in Allocated : WritePageAtOffset(page, offset)
  \/ \E offset \in PagerOffsets : GetPage(offset)

SpecPager == InitPager /\ [][NextPager]_vars

\* ------------------------------------------------------------------------
\* The encoder on the fullest nodes of a tree: for a branching factor that
\* BTree::new accepts, a node of 2*branches - 1 entries is encoded
\* ------------------------------------------------------------------------
\* a leaf of 2*b - 1 pairs and an internal node of 2*b - 1 keys and 2*b
\* children, as the root and below a parent
FullNodes(b) ==
  {Leaf([i \in 1..(2 * b - 1) |-> KeyValuePair(KeyFull, ValFull)], is_root,
        IF is_root THEN None ELSE Some(PAGE_SIZE)) : is_root \in BOOLEAN}
  \cup
  {Internal([i \in 1..(2 * b) |-> i * PAGE_SIZE], [i \in 1..(2 * b - 1) |-> KeyFull],
            is_root, IF is_root THEN None ELSE Some(PAGE_SIZE)) : is_root \in BOOLEAN}

InitFull ==
  /\ branches \in 1..MAX_BRANCHING_FACTOR
  /\ node \in FullNodes(branches)
  /\ load = "full"
  /\ pager = PagerNew
  /\ wal = WalNew
  /\ pc = "full"
  /\ kv = NoPair
  /\ node_offset = 0
  /\ via = "none"
  /\ new_root_offset = 0
  /\ root_offset = 0
  /\ calls = 0
  /\ last = Returned("none", <<>>, Ok(<<>>))
  /\ inserted = EmptyBag
  /\ pre = [k \in SearchInputs |-> {}]

\* Page::try_from(&node)
EncodeFull ==
  /\ pc = "full"
  /\ pc' = "done"
  /\ last' = Returned("encode", node, PageTryFrom(node))
  /\ UNCHANGED <<load, branches, pager, wal, kv, node, node_offset, via, new_root_offset,
                 root_offset, calls, inserted, pre>>

NextFull == EncodeFull

SpecFull == InitFull /\ [][NextFull]_vars

\* ------------------------------------------------------------------------
\* The tree a reader sees from a root offset
\* ------------------------------------------------------------------------
\* the node stored at an offset of the file
NodeAt(offset) == NodeTryFrom(pager.file[offset]).val

\* the node at an offset can be read and decoded
Readable(offset) ==
  /\ offset \in DOMAIN pager.file
  /\ NodeTryFrom(pager.file[offset]).ok

\* the state is the one construction or a returning insert has left
AfterInsert == pc = "idle" /\ last.op \in {"new", "insert"}
\* the state is the one construction or an insert returning Ok has left
AfterInsertOk == AfterInsert /\ last.res.ok

\* no tree of the model is deeper than this
MaxDepth == MaxInserts + MaxInsertsTwo + MaxInsertsSame + MaxInsertsOrdered

\* the offsets of the nodes within depth levels below (and with) offset
RECURSIVE Subtree(_, _)
Subtree(offset, depth) ==
  IF ~Readable(offset) \/ depth = 0 THEN {offset}
  ELSE LET n == NodeAt(offset)
       IN {offset} \cup UNION {Subtree(n.children[i], depth - 1) : i \in 1..Len(n.children)}

\* the nodes a reader reaches from the root recorded in the WAL
Reachable == Subtree(wal.root, MaxDepth)

\* the keys under which an insert returned Ok
InsertedKeys == {p.key : p \in BagToSet(inserted)}

RootNode == NodeAt(wal.root)

\* ------------------------------------------------------------------------
\* C1: after successful inserts, a search for an inserted key k succeeds
\* and returns a pair with key k whose value was inserted under k
\* ------------------------------------------------------------------------
C1_SearchFindsInserted ==
  (last.op = "search" /\ last.arg \in InsertedKeys)
    => /\ last.res.ok
       /\ last.res.val.key = last.arg
       /\ last.res.val \in BagToSet(inserted)

\* ------------------------------------------------------------------------
\* C2: a search for a key under which nothing was inserted returns
\* KeyNotFound, and a search never returns a pair with another key
\* ------------------------------------------------------------------------
C2_MissingKeyNotFound ==
  last.op = "search"
    => /\ (last.arg \notin InsertedKeys => last.res = Err("KeyNotFound"))
       /\ (last.res.ok => last.res.val.key = last.arg)

\* a search for a key that was never inserted has run down a tree with an
\* internal root and returned KeyNotFound
C2_Witness ==
  /\ last.op = "search"
  /\ last.arg \notin InsertedKeys
  /\ last.res = Err("KeyNotFound")
  /\ RootNode.node_type = "Internal"
  /\ BagCardinality(inserted) >= 3

\* the number of routing entries of a node
Entries(n) == IF n.node_type = "Internal" THEN Len(n.keys) ELSE Len(n.pairs)

\* the depths at which the leaves below offset lie, offset being at depth d
RECURSIVE LeafDepths(_, _, _)
LeafDepths(offset, d, fuel) ==
  IF ~Readable(offset) \/ fuel = 0 THEN {-1}
  ELSE LET n == NodeAt(offset) IN
       IF n.node_type = "Leaf" THEN {d}
       ELSE IF n.node_type = "Internal" /\ n.children # <<>>
       THEN UNION {LeafDepths(n.children[i], d + 1, fuel - 1) : i \in 1..Len(n.children)}
       ELSE {-1}

\* the bag of the pairs held by the leaves below offset
RECURSIVE LeafPairs(_, _)
LeafPairs(offset, fuel) ==
  IF ~Readable(offset) \/ fuel = 0 THEN EmptyBag
  ELSE LET n == NodeAt(offset)
           RECURSIVE Sum(_)
           Sum(i) == IF i = 0 THEN EmptyBag
                     ELSE Sum(i - 1) (+)
                          (IF n.node_type = "Leaf" THEN SetToBag({n.pairs[i]})
                           ELSE LeafPairs(n.children[i], fuel - 1))
       IN Sum(IF n.node_type = "Leaf" THEN Len(n.pairs) ELSE Len(n.children))

\* a sequence of strings is strictly increasing / non-decreasing
StrictlyIncreasing(ks) == \A i \in 1..(Len(ks) - 1) : StrLess(ks[i], ks[i + 1])
NonDecreasing(ks) == \A i \in 1..(Len(ks) - 1) : StrLeq(ks[i], ks[i + 1])

\* the keys of the entries of a node, in order
EntryKeys(n) == IF n.node_type = "Internal" THEN n.keys ELSE PairKeys(n.pairs)

\* the last insert returned an error
InsertFailed == last.op = "insert" /\ ~last.res.ok

C4_CommittedPagesUntouched ==
  [][(pc # "idle" \/ pc' # "idle")
       => /\ \A o \in Reachable : o \in DOMAIN pager'.file /\ pager'.file[o] = pager.file[o]
          /\ \A i \in 1..Len(pager'.log) :
               pager'.log[i][1] = "write_page_at_offset"
                 => \E j \in 1..(i - 1) : pager'.log[j] = <<"write_page", pager'.log[i][2]>>]_vars

\* an insert is under way below the root of a tree with several nodes and
\* has overwritten a page
C4_Witness ==
  /\ pc = "insert_non_full"
  /\ Cardinality(Reachable) >= 3
  /\ \E i \in 1..Len(pager.log) : pager.log[i][1] = "write_page_at_offset"
  /\ node.node_type = "Leaf"

\* ------------------------------------------------------------------------
\* C5: every leaf reachable from the WAL root is at the same depth
\* ------------------------------------------------------------------------
C5_LeavesSameDepth ==
  AfterInsert =>
    LET depths == LeafDepths(wal.root, 0, MaxDepth + 1)
    IN Cardinality(depths) = 1 /\ depths \subseteq 0..MaxDepth

\* a tree of branching factor 2 or more has grown to three levels
C5_Witness ==
  /\ AfterInsert
  /\ branches >= 2
  /\ LeafDepths(wal.root, 0, MaxDepth + 1) = {2}

\* ------------------------------------------------------------------------
\* C6: after an insert returns, no reachable node holds more than
\* 2*branches - 1 entries, and the node insert_non_full is called on is
\* never full
\* ------------------------------------------------------------------------
C6_NoNodeOverfull ==
  /\ AfterInsert => \A o \in Reachable : Entries(NodeAt(o)) <= 2 * branches - 1
  /\ (pc = "insert_non_full" /\ via \in {"split_child", "split_sibling"})
       => ~is_node_full(node, branches).val

\* ------------------------------------------------------------------------
\* C7: every reachable internal node has one more child than it has keys
\* ------------------------------------------------------------------------
C7_ChildrenOneMoreThanKeys ==
  AfterInsert => \A o \in Reachable :
    LET n == NodeAt(o) IN n.node_type = "Internal" => Len(n.children) = Len(n.keys) + 1

\* a tree of branching factor 2 or more has an internal node below its root
C7_Witness ==
  /\ AfterInsert
  /\ branches >= 2
  /\ \E o \in Reachable : LET n == NodeAt(o) IN n.node_type = "Internal" /\ ~n.is_root

\* ------------------------------------------------------------------------
\* C8 as claimed: in every reachable node the keys of the entries are
\* strictly increasing, also when a key is inserted more than once
\* ------------------------------------------------------------------------
C8_StrictlyIncreasing ==
  AfterInsert => \A o \in Reachable : StrictlyIncreasing(EntryKeys(NodeAt(o)))

\* C8 as amended: in every reachable node the keys of the entries are in
\* ascending order, equal keys allowed next to each other
C8_SortedAscending ==
  AfterInsert => \A o \in Reachable : NonDecreasing(EntryKeys(NodeAt(o)))

\* a leaf below an internal root holds a key twice, between other keys
C8_Witness ==
  /\ AfterInsert
  /\ RootNode.node_type = "Internal"
  /\ \E o \in Reachable :
       LET ks == EntryKeys(NodeAt(o)) IN
       /\ NodeAt(o).node_type = "Leaf"
       /\ Len(ks) >= 3
       /\ \E i \in 1..(Len(ks) - 1) : ks[i] = ks[i + 1]
       /\ \E i \in 1..(Len(ks) - 1) : ks[i] # ks[i + 1]

\* ------------------------------------------------------------------------
\* C9: the root offset in the WAL refers to a page of the file that decodes
\* to an internal node or a leaf and has its is_root byte set
\* ------------------------------------------------------------------------
C9_WalRootIsRootPage ==
  AfterInsertOk =>
  /\ wal.root \in DOMAIN pager.file
  /\ NodeTryFrom(pager.file[wal.root]).ok
  /\ RootNode.node_type \in {"Internal", "Leaf"}
  /\ ByteAt(pager.file[wal.root], IS_ROOT_OFFSET) = 1

\* an insert that split the root has returned Ok
C9_Witness ==
  /\ last.op = "insert"
  /\ last.res.ok
  /\ RootNode.node_type = "Internal"
  /\ Len(pager.log) >= 5
  /\ pager.log[4][1] = "write_page_at_offset"

\* ------------------------------------------------------------------------
\* C10: the leaves reachable from the root hold exactly the pairs whose
\* insert returned Ok, each as often as it was inserted
\* ------------------------------------------------------------------------
C10_LeavesHoldInsertedPairs ==
  AfterInsert => LeafPairs(wal.root, MaxDepth + 1) = inserted

\* an insert has returned to a tree that has an internal root and holds one
\* key under two values
C10_Witness ==
  /\ AfterInsert
  /\ RootNode.node_type = "Internal"
  /\ \E p, q \in BagToSet(inserted) : p.key = q.key /\ p.value # q.value

C12_NewFailsExactlyOutOfRange ==
  /\ [](last.op = "new" =>
          /\ last.res.ok <=> last.arg \in 1..MAX_BRANCHING_FACTOR
          /\ last.res.ok =>
                /\ branches = last.arg
                /\ Readable(wal.root)
                /\ RootNode = Leaf(<<>>, TRUE, None))
  /\ [][(last'.op = "new" /\ ~last'.res.ok) => (pager' = pager /\ wal' = wal)]_vars

\* BTree::new has failed for a branching factor of MAX_BRANCHING_FACTOR + 1
\* on a disk that holds an earlier store
C12_Witness ==
  /\ last = Returned("new", MAX_BRANCHING_FACTOR + 1, Err("UnexpectedError"))
  /\ pager.file # NoFile

\* ------------------------------------------------------------------------
\* C13 as claimed: decoding the page of any node the encoder accepts gives
\* the node back
\* ------------------------------------------------------------------------
C13_RoundTripOfAccepted ==
  (last.op = "round_trip" /\ PageTryFrom(node).ok) => last.res = Ok(node)

\* a string without NUL bytes
NulFree(str) == \A i \in 1..Len(str) : str[i] # 0

\* a node as the data model has it (spec.md 3): keys and values without NUL
\* bytes, no parent offset on a root, and an internal node with one child
\* more than keys, or without children and keys as insert first writes a
\* new root
WellFormed(n) ==
  /\ \A i \in 1..Len(n.keys) : NulFree(n.keys[i])
  /\ \A i \in 1..Len(n.pairs) : NulFree(n.pairs[i].key) /\ NulFree(n.pairs[i].value)
  /\ n.is_root => n.parent_offset = None
  /\ n.node_type = "Internal" =>
       \/ Len(n.children) = Len(n.keys) + 1
       \/ (n.children = <<>> /\ n.keys = <<>>)

\* C13 as amended: decoding the page of a node the encoder accepts gives the
\* node back when the node is well-formed
C13_RoundTripOfWellFormed ==
  (last.op = "round_trip" /\ PageTryFrom(node).ok /\ WellFormed(node)) => last.res = Ok(node)

\* an internal node below the root with three children and two keys, one of
\* them filling its slot, has come back from its page
C13_Witness ==
  /\ last.op = "round_trip"
  /\ last.res = Ok(node)
  /\ node.node_type = "Internal"
  /\ ~node.is_root
  /\ Len(node.children) = 3
  /\ node.keys = <<KeyA, KeyFull>>

\* ------------------------------------------------------------------------
\* C14: every reachable node other than the root holds at least
\* branches - 1 entries
\* ------------------------------------------------------------------------
C14_NonRootAtLeastHalf ==
  AfterInsert =>
    \A o \in Reachable \ {wal.root} : Entries(NodeAt(o)) >= branches - 1

\* a tree of branching factor 2 or more has, below its root, a leaf and an
\* internal node with exactly branches - 1 entries each
C14_Witness ==
  /\ AfterInsert
  /\ branches >= 2
  /\ \E o, q \in Reachable \ {wal.root} :
       /\ NodeAt(o).node_type = "Leaf"
       /\ NodeAt(q).node_type = "Internal"
       /\ Entries(NodeAt(o)) = branches - 1
       /\ Entries(NodeAt(q)) = branches - 1

\* ------------------------------------------------------------------------
\* C15: after inserts of pairwise distinct keys, in every reachable
\* internal node every key stored below child i is at most key i and
\* greater than key i - 1, and child i is the one a binary search of the
\* node's keys chooses for it
\* ------------------------------------------------------------------------
\* the keys stored in the nodes below (and at) offset
RECURSIVE SubtreeKeys(_, _)
SubtreeKeys(offset, fuel) ==
  IF ~Readable(offset) \/ fuel = 0 THEN {}
  ELSE LET n == NodeAt(offset)
       IN {EntryKeys(n)[i] : i \in 1..Len(EntryKeys(n))}
          \cup UNION {SubtreeKeys(n.children[i], fuel - 1) : i \in 1..Len(n.children)}

\* no key was inserted twice
DistinctKeysInserted ==
  \A p \in BagToSet(inserted) :
    /\ CopiesIn(p, inserted) = 1
    /\ \A q \in BagToSet(inserted) : q.key = p.key => q = p

C15_SearchTreeOrder ==
  (AfterInsert /\ DistinctKeysInserted) =>
    \A o \in Reachable :
      LET n == NodeAt(o) IN
      n.node_type = "Internal" =>
        \A i \in 1..Len(n.children) :
          \A k \in SubtreeKeys(n.children[i], MaxDepth) :
            /\ i <= Len(n.keys) => StrLeq(k, n.keys[i])
            /\ (i > 1 /\ i - 1 <= Len(n.keys)) => StrLess(n.keys[i - 1], k)
            /\ BinarySearchIdx(n.keys, k) = {i - 1}

\* ------------------------------------------------------------------------
\* C16: when an insert has returned Ok after finding the root full, the tree
\* is one level higher than the tree below the root the insert found, and
\* its root is an internal node with one key, the median of the old root,
\* and two children; when an insert has returned Ok after finding the root
\* not full, or has returned an error, the height is as it was.  (The tree
\* the insert found is still in the file below root_offset, see C4.)
\* ------------------------------------------------------------------------
\* the number of levels below the node at offset
TreeHeight(offset) ==
  LET depths == LeafDepths(offset, 0, MaxDepth + 1)
  IN CHOOSE d \in depths : \A e \in depths : e <= d

C16_HeightGrowsOnlyOnFullRoot ==
  (pc = "idle" /\ last.op = "insert") =>
    LET old_root == NodeAt(root_offset) IN
    IF ~last.res.ok THEN TreeHeight(wal.root) = TreeHeight(root_offset)
    ELSE IF is_node_full(old_root, branches).val
    THEN /\ TreeHeight(wal.root) = TreeHeight(root_offset) + 1
         /\ RootNode.node_type = "Internal"
         /\ RootNode.keys = <<NodeSplit(old_root, branches).val.median>>
         /\ Len(RootNode.children) = 2
    ELSE TreeHeight(wal.root) = TreeHeight(root_offset)

\* ------------------------------------------------------------------------
\* C17: an insert that returns Ok has written the WAL root once, as the last
\* of its writes, after the page writes that begin with the new root page
\* and end with the leaf that holds the pair; an insert that is under way
\* or has returned an error has not written the WAL root
\* ------------------------------------------------------------------------
\* the positions in the write log of the running or last insert at which
\* the WAL root was written
SetRootWrites == {i \in 1..Len(pager.log) : pager.log[i][1] = "set_root"}

C17_SetRootOnceAndLast ==
  LET log == pager.log IN
  /\ pc # "idle" => SetRootWrites = {} /\ wal.root = root_offset
  /\ (pc = "idle" /\ last.op = "insert" /\ ~last.res.ok)
       => SetRootWrites = {} /\ wal.root = root_offset
  /\ (pc = "idle" /\ last.op = "insert" /\ last.res.ok)
       => /\ SetRootWrites = {Len(log)}
          /\ Len(log) >= 3
          /\ log[Len(log)] = <<"set_root", wal.root>>
          /\ wal.root # root_offset
          /\ log[1] = <<"write_page", wal.root>>
          /\ log[Len(log) - 1][1] = "write_page_at_offset"
          /\ LET leaf == NodeAt(log[Len(log) - 1][2])
             IN leaf.node_type = "Leaf"
                /\ \E j \in 1..Len(leaf.pairs) : leaf.pairs[j] = last.arg

\* an insert into a tree of branching factor 2 or more has returned Ok after
\* eight page writes or more, as an insert that splits a node on its way does
C17_Witness ==
  /\ branches >= 2
  /\ pc = "idle"
  /\ last.op = "insert"
  /\ last.res.ok
  /\ Len(pager.log) >= 9
  /\ SetRootWrites = {Len(pager.log)}

\* ------------------------------------------------------------------------
\* C18: Node::split on a leaf of exactly 2*branches - 1 pairs leaves the
\* first branches pairs in the leaf and returns the last branches - 1 pairs,
\* in order, in a sibling leaf that is not a root and has the parent_offset
\* of the leaf; the median it returns is the key of the pair at index
\* branches - 1, the last pair left in the leaf; the pairs of the leaf
\* followed by those of the sibling are the pairs the leaf had
\* ------------------------------------------------------------------------
C18_LeafSplit ==
  (last.op = "split" /\ last.arg.node_type = "Leaf"
     /\ Len(last.arg.pairs) = 2 * branches - 1)
    => /\ last.res.ok
       /\ LET self == last.arg
              sibling == last.res.val.sibling
          IN /\ node = [self EXCEPT !.pairs = SubSeq(self.pairs, 1, branches)]
             /\ Len(node.pairs) = branches
             /\ sibling.node_type = "Leaf"
             /\ sibling.pairs = SubSeq(self.pairs, branches + 1, 2 * branches - 1)
             /\ Len(sibling.pairs) = branches - 1
             /\ last.res.val.median = self.pairs[branches].key
             /\ last.res.val.median = node.pairs[Len(node.pairs)].key
             /\ sibling.is_root = FALSE
             /\ sibling.parent_offset = self.parent_offset
             /\ node.pairs \o sibling.pairs = self.pairs

\* a root leaf of five pairs with distinct keys and a parent_offset has been
\* split with branching factor 3
C18_Witness ==
  /\ last.op = "split"
  /\ branches = 3
  /\ last.arg = Leaf([i \in 1..5 |-> AscInput(i)], TRUE, Some(PAGE_SIZE))
  /\ last.res.ok
  /\ Len(last.res.val.sibling.pairs) = 2

\* ------------------------------------------------------------------------
\* C19: Node::split on an internal node of 2*branches - 1 keys and
\* 2*branches children leaves the first branches - 1 keys and the first
\* branches children in the node, returns the last branches - 1 keys and
\* the last branches children in a sibling, and returns as median the key
\* at index branches - 1, which neither holds: the keys of the node, the
\* median and the keys of the sibling are the keys the node had, and the
\* children of the node followed by those of the sibling its children
\* ------------------------------------------------------------------------
C19_InternalSplit ==
  (last.op = "split" /\ last.arg.node_type = "Internal"
     /\ Len(last.arg.keys) = 2 * branches - 1
     /\ Len(last.arg.children) = 2 * branches)
    => /\ last.res.ok
       /\ LET self == last.arg
              sibling == last.res.val.sibling
              median == last.res.val.median
          IN /\ node = [self EXCEPT !.keys = SubSeq(self.keys, 1, branches - 1),
                                    !.children = SubSeq(self.children, 1, branches)]
             /\ Len(node.keys) = branches - 1
             /\ Len(node.children) = branches
             /\ sibling.node_type = "Internal"
             /\ sibling.keys = SubSeq(self.keys, branches + 1, 2 * branches - 1)
             /\ Len(sibling.keys) = branches - 1
             /\ sibling.children = SubSeq(self.children, branches + 1, 2 * branches)
             /\ Len(sibling.children) = branches
             /\ median = self.keys[branches]
             /\ node.keys \o <<median>> \o sibling.keys = self.keys
             /\ node.children \o sibling.children = self.children

\* an internal node of five distinct keys and six children has been split
\* with branching factor 3
C19_Witness ==
  /\ last.op = "split"
  /\ branches = 3
  /\ last.arg = Internal(SplitChildren(6), [i \in 1..5 |-> AscInput(i).key], FALSE,
                         Some(PAGE_SIZE))
  /\ last.res.ok
  /\ Len(last.res.val.sibling.keys) = 2
  /\ Len(node.children) = 3

\* ------------------------------------------------------------------------
\* C20: write_page returns the cursor as it was and moves it on by
\* PAGE_SIZE, so that the n-th write_page returns (n - 1) * PAGE_SIZE;
\* write_page_at_offset and get_page leave the cursor where it is; a page
\* written at an offset is what get_page returns there until the next write
\* at that offset, and get_page returns what the file holds at its offset
\* ------------------------------------------------------------------------
\* every offset but those in written reads as it did before the step
ReadsUnchangedBut(written) ==
  \A o \in PagerOffsets \ written : get_page(pager', o) = get_page(pager, o)

C20_PagerCursorAndPages ==
  /\ [](/\ pager.cursor = PAGE_SIZE * Cardinality(Allocated)
        /\ Allocated = {k * PAGE_SIZE : k \in 0..(Cardinality(Allocated) - 1)})
  /\ [][/\ last'.op = "write_page"
             => /\ last'.res = Ok(pager.cursor)
                /\ pager'.cursor = pager.cursor + PAGE_SIZE
                /\ get_page(pager', pager.cursor) = Ok(last'.arg)
                /\ ReadsUnchangedBut({pager.cursor})
        /\ last'.op = "write_page_at_offset"
             => /\ last'.res = Ok(<<>>)
                /\ pager'.cursor = pager.cursor
                /\ get_page(pager', last'.arg[2]) = Ok(last'.arg[1])
                /\ ReadsUnchangedBut({last'.arg[2]})
        /\ last'.op = "get_page"
             => /\ last'.res = get_page(pager, last'.arg)
                /\ pager'.cursor = pager.cursor
                /\ ReadsUnchangedBut({})]_vars

\* a page was allocated, then overwritten with another page, and get_page
\* at its offset has returned the other page; the cursor is past it
C20_Witness ==
  /\ last.op = "get_page"
  /\ last.arg = 0
  /\ pager.log = <<<<"write_page", 0>>, <<"write_page_at_offset", 0>>>>
  /\ last.res = Ok(PageTryFrom(Leaf(<<AscInput(2)>>, FALSE, Some(0))).val)
  /\ pager.cursor = PAGE_SIZE

\* ------------------------------------------------------------------------
\* C21: for every branching factor BTree::new accepts, a leaf of
\* 2*branches - 1 pairs takes 18 + 20*(2*branches - 1) bytes and an
\* internal node of 2*branches - 1 keys and 2*branches children takes
\* 18 + 8*(2*branches) + 10*(2*branches - 1) bytes, this is at most
\* PAGE_SIZE, and the encoder returns a page for the node
\* ------------------------------------------------------------------------
\* the bytes the encoder writes for a node: the header, then the pairs of a
\* leaf or the children and the keys of an internal node
EncodedBytes(n) ==
  IF n.node_type = "Leaf"
  THEN LEAF_NODE_HEADER_SIZE + (KEY_SIZE + VALUE_SIZE) * Len(n.pairs)
  ELSE INTERNAL_NODE_HEADER_SIZE + PTR_SIZE * Len(n.children) + KEY_SIZE * Len(n.keys)

C21_FullNodeFitsPage ==
  last.op = "encode"
    => /\ EncodedBytes(last.arg) =
            (IF last.arg.node_type = "Leaf"
             THEN 18 + 20 * (2 * branches - 1)
             ELSE 18 + 8 * (2 * branches) + 10 * (2 * branches - 1))
       /\ EncodedBytes(last.arg) <= PAGE_SIZE
       /\ last.res.ok

\* ------------------------------------------------------------------------
\* C22: after an insert, every reachable node other than the root has a
\* parent_offset, and the parent_offset of every child of a reachable
\* internal node is the offset of that internal node
\* ------------------------------------------------------------------------
C22_ParentOffsetAccurate ==
  AfterInsert =>
    /\ \A o \in Reachable \ {wal.root} : NodeAt(o).parent_offset # None
    /\ \A o \in Reachable :
         LET n == NodeAt(o) IN
         n.node_type = "Internal" =>
           \A i \in 1..Len(n.children) : NodeAt(n.children[i]).parent_offset = Some(o)

====
